---- MODULE Spec2Model ----
(***************************************************************************)
(* Model of pdf_parser.py: per-page block extraction on a thread pool,     *)
(* watermark filtering, document-type detection, title extraction, the two *)
(* heading strategies, the outline clean-up and the batch driver.          *)
(*                                                                         *)
(* Texts are TLA+ strings; a character is a string of length one.  Only    *)
(* ASCII characters occur in the modelled inputs.  Direction vectors are   *)
(* kept in hundredths (0.99 is 99), bbox is reduced to bbox[1] (field y0). *)
(***************************************************************************)
EXTENDS Integers, Sequences, FiniteSets, TLC

VARIABLES
    \* ---- classify pipeline (one document) ----
    pc,          \* position in the per-document pipeline of __main__
    page_count,  \* len(doc)
    all_blocks,  \* result of get_document_blocks_parallel(doc)
    filtered_blocks, \* result of filter_non_content
    cands,       \* the list `outline` before Step 3, each item with its originating block
    path,        \* branch taken by classify_headings
    result,      \* dict returned by classify_headings
    \* ---- extraction of one document on the thread pool ----
    xpc,         \* position in get_document_blocks_parallel
    pages,       \* the document's pages: embedded text length and extractable lines
    tasks,       \* list `tasks`: the function chosen for each page
    pending,     \* futures not yet yielded by as_completed
    collected,   \* list `all_blocks` inside get_document_blocks_parallel
    completed,   \* the order in which as_completed has yielded the futures
    \* ---- batch driver ----
    bpc,         \* position in the for loop of __main__
    pdf_files,   \* list pdf_files
    idx,         \* index of the current filename in pdf_files
    docs,        \* what each input file holds (page count, where processing fails)
    outputs,     \* the output directory: output path -> record
    writes       \* number of records written for each input file

vars == <<pc, page_count, all_blocks, filtered_blocks, cands, path, result,
          xpc, pages, tasks, pending, collected, completed,
          bpc, pdf_files, idx, docs, outputs, writes>>

classifyVars == <<pc, page_count, all_blocks, filtered_blocks, cands, path, result>>
extractVars  == <<xpc, pages, tasks, pending, collected, completed>>
batchVars    == <<bpc, pdf_files, idx, docs, outputs, writes>>

-----------------------------------------------------------------------------
(* Program constants *)

TEXT_LENGTH_THRESHOLD == 150
PAGE_LIMIT == 50
GRAPHICAL_MAX_BLOCKS == 40
PARAGRAPH_WORDS == 15
DIR_HORIZONTAL == 99
BODY_WORDS == 20
HEADING_WORDS == 10
COLON_PREFIX_WORDS == 5
MAX_LEVELS == 3

-----------------------------------------------------------------------------
(* Strings *)

Ch(s, i) == SubSeq(s, i, i)

Min(a, b) == IF a <= b THEN a ELSE b

Max2(a, b) == IF a >= b THEN a ELSE b

IsSpace(c) == c \in {" ", "\t", "\n", "\r"}

Digits == {"0", "1", "2", "3", "4", "5", "6", "7", "8", "9"}

UpperCase == "ABCDEFGHIJKLMNOPQRSTUVWXYZ"
LowerCase == "abcdefghijklmnopqrstuvwxyz"

UpperSet == {Ch(UpperCase, i) : i \in 1..26}
LowerSet == {Ch(LowerCase, i) : i \in 1..26}

IsUpper(c) == c \in UpperSet

LowerOf == [c \in UpperSet |-> Ch(LowerCase, CHOOSE i \in 1..26 : Ch(UpperCase, i) = c)]

Lower(c) == IF c \in UpperSet THEN LowerOf[c] ELSE c

\* str.lower(), by halves
RECURSIVE lower(_)
lower(s) ==
    IF Len(s) = 0 THEN ""
    ELSE IF Len(s) = 1 THEN Lower(s)
    ELSE LET h == Len(s) \div 2
         IN  lower(SubSeq(s, 1, h)) \o lower(SubSeq(s, h + 1, Len(s)))

\* \w of the regular expressions
WordChars == Digits \cup {"_"} \cup UpperSet \cup LowerSet

IsWordChar(c) == c \in WordChars

MinOf(S) == CHOOSE x \in S : \A y \in S : x <= y

\* index of the first character at or after i that is not whitespace (Len+1 if none)
SkipSpace(s, i) ==
    MinOf({j \in i..Len(s) : ~IsSpace(Ch(s, j))} \cup {Max2(i, Len(s) + 1)})

\* str.strip()
strip(s) ==
    LET a == SkipSpace(s, 1)
        last == {i \in 1..Len(s) : ~IsSpace(Ch(s, i))}
    IN  IF last = {} THEN ""
        ELSE SubSeq(s, a, CHOOSE i \in last : \A j \in last : j <= i)

\* re.sub(r'\s+', ' ', s): every maximal run of whitespace becomes one space.
\* The string is collapsed by halves; a run that spans the cut gives one space.
RECURSIVE CollapseSpaces(_)
CollapseSpaces(s) ==
    IF Len(s) = 0 THEN ""
    ELSE IF Len(s) = 1 THEN (IF IsSpace(s) THEN " " ELSE s)
    ELSE LET h == Len(s) \div 2
             a == CollapseSpaces(SubSeq(s, 1, h))
             b == CollapseSpaces(SubSeq(s, h + 1, Len(s)))
         IN  IF Ch(a, Len(a)) = " " /\ Ch(b, 1) = " "
             THEN a \o SubSeq(b, 2, Len(b)) ELSE a \o b

clean_text(text) == strip(CollapseSpaces(text))

\* len(s.split()): the number of maximal runs of non-whitespace characters
SplitLen(s) ==
    Cardinality({i \in 1..Len(s) :
        ~IsSpace(Ch(s, i)) /\ (i = 1 \/ IsSpace(Ch(s, i - 1)))})

\* str.startswith
startswith(s, p) == Len(s) >= Len(p) /\ SubSeq(s, 1, Len(p)) = p

Contains(s, c) == \E i \in 1..Len(s) : Ch(s, i) = c

\* s.split(':', 1)[0]
BeforeColon(s) ==
    IF Contains(s, ":")
    THEN SubSeq(s, 1, (CHOOSE i \in 1..Len(s) :
                         Ch(s, i) = ":" /\ \A j \in 1..(i - 1) : Ch(s, j) # ":") - 1)
    ELSE s

\* ' '.join(parts), joined by halves
RECURSIVE join(_)
join(parts) ==
    IF parts = <<>> THEN ""
    ELSE IF Len(parts) = 1 THEN parts[1]
    ELSE LET h == Len(parts) \div 2
         IN  join(SubSeq(parts, 1, h)) \o " " \o join(SubSeq(parts, h + 1, Len(parts)))

-----------------------------------------------------------------------------
(* Regular expressions.  A matcher maps a start index to the set of indices *)
(* at which the sub-pattern can end (one past its last character), so that  *)
(* a pattern matches iff some path of the backtracking search succeeds.     *)

Then(S, F(_)) == UNION {F(j) : j \in S}

\* \s+
SpacesEnds(s, i) ==
    {j \in (i + 1)..(Len(s) + 1) : \A k \in i..(j - 1) : IsSpace(Ch(s, k))}

\* \s*
OptSpacesEnds(s, i) == {i} \cup SpacesEnds(s, i)

\* \d{1,2}
Digits12Ends(s, i) ==
    {j \in {i + 1, i + 2} : j <= Len(s) + 1 /\ \A k \in i..(j - 1) : Ch(s, k) \in Digits}

\* \d{4}
Digits4Ends(s, i) ==
    IF i + 3 <= Len(s) /\ \A k \in i..(i + 3) : Ch(s, k) \in Digits THEN {i + 4} ELSE {}

\* a literal character
LitEnds(s, i, c) == IF i <= Len(s) /\ Ch(s, i) = c THEN {i + 1} ELSE {}

\* \b at index i (between characters i-1 and i)
WordBoundary(s, i) ==
    LET before == i > 1 /\ i - 1 <= Len(s) /\ IsWordChar(Ch(s, i - 1))
        after  == i >= 1 /\ i <= Len(s) /\ IsWordChar(Ch(s, i))
    IN  before # after

Months ==
    {"January", "February", "March", "April", "May", "June", "July", "August",
     "September", "October", "November", "December",
     "Jan", "Feb", "Mar", "Apr", "Jun", "Jul", "Aug", "Sep", "Oct", "Nov", "Dec"}

LowerMonths == {lower(m) : m \in Months}

\* (January|...|Dec) under re.IGNORECASE
MonthEnds(s, i) ==
    LET head == lower(SubSeq(s, i, Min(Len(s), i + 8)))
    IN  {i + Len(m) : m \in {n \in LowerMonths : startswith(head, n)}}

\* \b(Month)\s+\d{1,2},\s+\d{4}\b
DateMonthFirstEnds(s) ==
    LET e1 == IF WordBoundary(s, 1) THEN MonthEnds(s, 1) ELSE {}
        e2 == Then(e1, LAMBDA j : SpacesEnds(s, j))
        e3 == Then(e2, LAMBDA j : Digits12Ends(s, j))
        e4 == Then(e3, LAMBDA j : LitEnds(s, j, ","))
        e5 == Then(e4, LAMBDA j : SpacesEnds(s, j))
        e6 == Then(e5, LAMBDA j : Digits4Ends(s, j))
    IN  {j \in e6 : WordBoundary(s, j)}

\* \b\d{1,2}\s+(Month)\s+\d{4}\b
DateDayFirstEnds(s) ==
    LET e1 == IF WordBoundary(s, 1) THEN Digits12Ends(s, 1) ELSE {}
        e2 == Then(e1, LAMBDA j : SpacesEnds(s, j))
        e3 == Then(e2, LAMBDA j : MonthEnds(s, j))
        e4 == Then(e3, LAMBDA j : SpacesEnds(s, j))
        e5 == Then(e4, LAMBDA j : Digits4Ends(s, j))
    IN  {j \in e5 : WordBoundary(s, j)}

\* date_pattern.match(s) is not None
date_pattern_match(s) == DateMonthFirstEnds(s) # {} \/ DateDayFirstEnds(s) # {}

\* (\.\d{1,2})*
RECURSIVE DotGroupsEnds(_, _)
DotGroupsEnds(s, i) ==
    {i} \cup Then(Then(LitEnds(s, i, "."), LAMBDA j : Digits12Ends(s, j)),
                  LAMBDA j : DotGroupsEnds(s, j))

\* ([A-Z]|\d{1,2}(\.\d{1,2})*)
NumberGroupEnds(s, i) ==
    (IF i <= Len(s) /\ IsUpper(Ch(s, i)) THEN {i + 1} ELSE {})
    \cup Then(Digits12Ends(s, i), LAMBDA j : DotGroupsEnds(s, j))

\* ^\s*([A-Z]|\d{1,2}(\.\d{1,2})*)\.?\s+  : the spans <<first, end>> of group 1
\* over the successful paths (there is at most one)
NumberGroups(s) ==
    {g \in UNION {{<<a, e>> : e \in NumberGroupEnds(s, a)} : a \in OptSpacesEnds(s, 1)} :
        Then({g[2]} \cup LitEnds(s, g[2], "."), LAMBDA j : SpacesEnds(s, j)) # {}}

\* number_pattern.match(s) is not None
number_pattern_match(s) == NumberGroups(s) # {}

\* match.group(1)
number_group1(s) == LET g == CHOOSE g \in NumberGroups(s) : TRUE IN SubSeq(s, g[1], g[2] - 1)

\* str.count('.')
CountDots(s) == Cardinality({i \in 1..Len(s) : Ch(s, i) = "."})


-----------------------------------------------------------------------------
(* Blocks and sorting *)

\* dir=None (OCR blocks); like None, the empty tuple is falsy in `block.dir and ...`
NoDir == <<>>

\* level = None (size_to_level.get found nothing)
NoLevel == "None"

\* TextBlock(text, size, font, bbox, page, dir); y0 is bbox[1]
TextBlock(text, size, font, y0, page, dir) ==
    [text |-> text, size |-> size, font |-> font, y0 |-> y0, page |-> page, dir |-> dir]

Max(S) == CHOOSE x \in S : \A y \in S : y <= x

Abs(n) == IF n < 0 THEN -n ELSE n

\* list.sort / sorted with Less(a, b) standing for key(a) < key(b): the sort is
\* stable, so element i goes to the position that counts the elements with
\* a smaller key and the earlier elements with an equal key
StableSort(Less(_, _), s) ==
    LET n == Len(s)
        rank(i) == 1 + Cardinality({j \in 1..n :
                       \/ Less(s[j], s[i])
                       \/ (~Less(s[i], s[j]) /\ j < i)})
    IN  [k \in 1..n |-> s[CHOOSE i \in 1..n : rank(i) = k]]

\* key=lambda b: (b.page, b.bbox[1])
PageY0Less(a, b) == a.page < b.page \/ (a.page = b.page /\ a.y0 < b.y0)

\* key=lambda b: b.bbox[1]
Y0Less(a, b) == a.y0 < b.y0

\* key=lambda x: x.size, reverse=True
SizeGreater(a, b) == a.size > b.size

\* sorted(list(set(...)), reverse=True)
RECURSIVE SortedDesc(_)
SortedDesc(S) == IF S = {} THEN <<>> ELSE <<Max(S)>> \o SortedDesc(S \ {Max(S)})

Range(s) == {s[i] : i \in 1..Len(s)}

Sizes(blocks) == {blocks[i].size : i \in 1..Len(blocks)}

-----------------------------------------------------------------------------
(* filter_non_content *)

\* block.dir and abs(block.dir[0]) < 0.99
IsRotated(block) == block.dir # NoDir /\ Abs(block.dir[1]) < DIR_HORIZONTAL

\* the texts of the page-0 blocks of maximal page-0 size
ProtectedTexts(blocks) ==
    LET first_page_blocks == SelectSeq(blocks, LAMBDA b : b.page = 0)
    IN  IF first_page_blocks = <<>> THEN {}
        ELSE LET max_size == Max(Sizes(first_page_blocks))
             IN  {b.text : b \in {c \in Range(first_page_blocks) : c.size = max_size}}

TextsToRemove(blocks) ==
    {b.text : b \in {c \in Range(blocks) : c.text \notin ProtectedTexts(blocks) /\ IsRotated(c)}}

\* filter_non_content dropping only the rotated blocks themselves
filter_non_content_ByIdentity(blocks) ==
    IF blocks = <<>> THEN <<>>
    ELSE SelectSeq(blocks, LAMBDA b : ~(b.text \notin ProtectedTexts(blocks) /\ IsRotated(b)))

filter_non_content(blocks) ==
    IF blocks = <<>> THEN <<>>
    ELSE LET texts_to_remove == TextsToRemove(blocks)
         IN  IF texts_to_remove # {}
             THEN SelectSeq(blocks, LAMBDA b : b.text \notin texts_to_remove)
             ELSE blocks

-----------------------------------------------------------------------------
(* classify_headings *)

LevelName(i) == <<"H1", "H2", "H3">>[i]

Item(level, text, page) == [level |-> level, text |-> text, page |-> page]

WordCount(text) == SplitLen(text)

\* IsGraphicalDoc with the wrong comparison of the block count with 40
IsGraphicalDoc_Inverted(n, blocks) ==
    /\ n = 1
    /\ LET paragraph_blocks == SelectSeq(blocks, LAMBDA b : WordCount(b.text) > PARAGRAPH_WORDS)
       IN  /\ Len(blocks) > GRAPHICAL_MAX_BLOCKS
           /\ \/ paragraph_blocks = <<>>
              \/ 10 * Len(paragraph_blocks) < Len(blocks)

\* IsGraphicalDoc admitting 40 blocks
IsGraphicalDoc_Inclusive(n, blocks) ==
    /\ n = 1
    /\ LET paragraph_blocks == SelectSeq(blocks, LAMBDA b : WordCount(b.text) > PARAGRAPH_WORDS)
       IN  /\ Len(blocks) <= GRAPHICAL_MAX_BLOCKS
           /\ \/ paragraph_blocks = <<>>
              \/ 10 * Len(paragraph_blocks) < Len(blocks)

\* Step 1: document type detection
IsGraphicalDoc(n, blocks) ==
    /\ n = 1
    /\ LET paragraph_blocks == SelectSeq(blocks, LAMBDA b : WordCount(b.text) > PARAGRAPH_WORDS)
       IN  /\ Len(blocks) < GRAPHICAL_MAX_BLOCKS
           /\ \/ paragraph_blocks = <<>>
              \/ 10 * Len(paragraph_blocks) < Len(blocks)

GraphicalResult(blocks) ==
    LET largest_block == StableSort(SizeGreater, blocks)[1]
    IN  [title |-> "",
         outline |-> <<Item("H1", clean_text(largest_block.text), largest_block.page)>>]

\* Step 2: title_blocks
TitleBlocks(blocks) ==
    LET first_page_blocks == SelectSeq(blocks, LAMBDA b : b.page = 0)
    IN  IF first_page_blocks = <<>> THEN <<>>
        ELSE LET max_size == Max(Sizes(first_page_blocks))
             IN  StableSort(Y0Less, SelectSeq(first_page_blocks, LAMBDA b : b.size = max_size))

TitleParts(blocks) == LET tb == TitleBlocks(blocks) IN [i \in 1..Len(tb) |-> tb[i].text]

DocTitle(blocks) ==
    IF SelectSeq(blocks, LAMBDA b : b.page = 0) = <<>> THEN "Title Not Found"
    ELSE join(TitleParts(blocks))

\* SizeToLevel numbering the levels from the smallest of the three sizes
SizeToLevel_Ascending(sizes) ==
    LET m == Min(Len(sizes), MAX_LEVELS)
    IN  [sz \in {sizes[i] : i \in 1..m} |->
            LevelName(m + 1 - (CHOOSE i \in 1..Len(sizes) : sizes[i] = sz))]

\* {size: f"H{i+1}" for i, size in enumerate(sizes[:3])}
SizeToLevel(sizes) ==
    [sz \in {sizes[i] : i \in 1..Min(Len(sizes), MAX_LEVELS)} |->
        LevelName(CHOOSE i \in 1..Len(sizes) : sizes[i] = sz)]

\* Strategy 1, lines 172-176
TextToAdd(text) ==
    IF WordCount(text) >= HEADING_WORDS /\ Contains(text, ":")
    THEN LET potential_heading == BeforeColon(text)
         IN  IF WordCount(potential_heading) < COLON_PREFIX_WORDS
             THEN potential_heading \o ":" ELSE text
    ELSE text

\* the title test restricted to the blocks of the first page
IsTitleText_FirstPage(b, title_parts) == b.page = 0 /\ b.text \in Range(title_parts)

\* b.text in title_parts
IsTitleText(b, title_parts) == b.text \in Range(title_parts)

\* Strategy 1, lines 169-170 and 178: the blocks that reach outline.append
KeptA(b, title_parts, size_to_level) ==
    /\ ~(\/ IsTitleText(b, title_parts)
         \/ b.size \notin DOMAIN size_to_level
         \/ date_pattern_match(strip(b.text)))
    /\ WordCount(TextToAdd(b.text)) < HEADING_WORDS

\* Strategy 1, line 179: the appended item, kept with the block it comes from
CandA(b, size_to_level) ==
    [item |-> Item(size_to_level[b.size], TextToAdd(b.text), b.page),
     blk |-> b, numbered |-> FALSE]

EmitA(kept, size_to_level) == [i \in 1..Len(kept) |-> CandA(kept[i], size_to_level)]

LevelsA(blocks, title_parts, size_to_level) ==
    EmitA(SelectSeq(blocks, LAMBDA b : KeptA(b, title_parts, size_to_level)), size_to_level)

\* Strategy 1
StrategyA(blocks, title_parts, unique_sizes) ==
    LevelsA(blocks, title_parts, SizeToLevel(unique_sizes))

\* Counter(para_sizes).most_common(1)[0][0]: the first-seen size of maximal count
MostCommon(xs) ==
    LET count(v) == Cardinality({i \in 1..Len(xs) : xs[i] = v})
        first(v) == CHOOSE i \in 1..Len(xs) : xs[i] = v /\ \A j \in 1..(i - 1) : xs[j] # v
        best == {v \in Range(xs) : \A w \in Range(xs) : count(w) <= count(v)}
    IN  CHOOSE v \in best : \A w \in best : first(v) <= first(w)

BodySize(blocks, unique_sizes) ==
    LET paras == SelectSeq(blocks, LAMBDA b : WordCount(b.text) > BODY_WORDS)
        para_sizes == [i \in 1..Len(paras) |-> paras[i].size]
    IN  IF para_sizes # <<>> THEN MostCommon(para_sizes)
        ELSE IF unique_sizes # <<>> THEN unique_sizes[Len(unique_sizes)] ELSE 0

HeadingCandidates(blocks, title_parts, body_size) ==
    SelectSeq(blocks, LAMBDA b :
        /\ ~IsTitleText(b, title_parts)
        /\ b.size > body_size
        /\ WordCount(b.text) < BODY_WORDS
        /\ ~date_pattern_match(strip(b.text)))

\* the level consulting the numbering only for a size that has a level
Level_SizeFirst(b, size_to_level) ==
    IF b.size \notin DOMAIN size_to_level THEN NoLevel
    ELSE IF number_pattern_match(b.text)
    THEN LevelName(Min(CountDots(number_group1(b.text)) + 1, MAX_LEVELS))
    ELSE size_to_level[b.size]

\* lines 192-194: size_to_level.get(b.size), overridden by the numbering
Level(b, size_to_level) ==
    IF number_pattern_match(b.text)
    THEN LevelName(Min(CountDots(number_group1(b.text)) + 1, MAX_LEVELS))
    ELSE IF b.size \in DOMAIN size_to_level THEN size_to_level[b.size]
    ELSE NoLevel

\* line 195: the appended item, kept with the block it comes from
CandB(b, size_to_level) ==
    [item |-> Item(Level(b, size_to_level), b.text, b.page),
     blk |-> b, numbered |-> number_pattern_match(b.text)]

EmitB(emitted, size_to_level) == [i \in 1..Len(emitted) |-> CandB(emitted[i], size_to_level)]

\* lines 191-195 over the sorted candidates
LevelsB(ordered, size_to_level) ==
    EmitB(SelectSeq(ordered, LAMBDA b : Level(b, size_to_level) # NoLevel), size_to_level)

\* lines 188-195
NumberedLevels(heading_candidates) ==
    LevelsB(StableSort(PageY0Less, heading_candidates),
            SizeToLevel(SortedDesc(Sizes(heading_candidates))))

\* Strategy 2
StrategyB(blocks, title_parts, unique_sizes) ==
    NumberedLevels(HeadingCandidates(blocks, title_parts, BodySize(blocks, unique_sizes)))

\* Step 3, lines 198-204: keep the first item of each (text, page)
RECURSIVE Dedup(_, _)
Dedup(outline, seen) ==
    IF outline = <<>> THEN <<>>
    ELSE LET item == Head(outline)
             identifier == <<item.text, item.page>>
         IN  IF identifier \notin seen
             THEN <<item>> \o Dedup(Tail(outline), seen \cup {identifier})
             ELSE Dedup(Tail(outline), seen)

\* Step 3, lines 206-217: fold an item starting with '&' into the previous kept item
RECURSIVE MergeContinuations(_, _)
MergeContinuations(merged_outline, rest) ==
    IF rest = <<>> THEN merged_outline
    ELSE LET current_item == Head(rest)
             n == Len(merged_outline)
             prev_item == merged_outline[n]
         IN  IF /\ current_item.page = prev_item.page
                /\ current_item.level = prev_item.level
                /\ startswith(strip(current_item.text), "&")
             THEN MergeContinuations(
                      [merged_outline EXCEPT ![n].text = prev_item.text \o " " \o current_item.text],
                      Tail(rest))
             ELSE MergeContinuations(Append(merged_outline, current_item), Tail(rest))

MergeOutline(outline) ==
    LET final_outline == Dedup(outline, {})
    IN  IF final_outline = <<>> THEN <<>>
        ELSE MergeContinuations(<<Head(final_outline)>>, Tail(final_outline))

Items(cs) == [i \in 1..Len(cs) |-> cs[i].item]

TextResult(p, cs, blocks) ==
    [path |-> p, cands |-> cs,
     result |-> [title |-> clean_text(DocTitle(blocks)), outline |-> MergeOutline(Items(cs))]]

\* lines 157-219
ClassifyText(blocks, title_parts, unique_sizes) ==
    IF 1 < Len(unique_sizes) /\ Len(unique_sizes) <= 6
    THEN TextResult("A", StrategyA(blocks, title_parts, unique_sizes), blocks)
    ELSE TextResult("B", StrategyB(blocks, title_parts, unique_sizes), blocks)

\* classify_headings(doc, blocks) with n = len(doc): the branch taken, the items
\* appended to `outline` with their blocks, and the returned dict
classify_headings(n, blocks) ==
    IF blocks = <<>>
    THEN [path |-> "empty", cands |-> <<>>,
          result |-> [title |-> "Title Not Found", outline |-> <<>>]]
    ELSE IF IsGraphicalDoc(n, blocks)
    THEN [path |-> "graphical", cands |-> <<>>, result |-> GraphicalResult(blocks)]
    ELSE ClassifyText(blocks, TitleParts(blocks), SortedDesc(Sizes(blocks)))

-----------------------------------------------------------------------------
(* Bounds and input documents of the classify pipeline *)

MaxFree == 1     \* lines added freely to a base document
MaxPages == 2    \* pages of a freely extended document
MaxPad == 37     \* short filler lines of a padded document
MaxPara == 4     \* paragraph filler lines of a padded document

Horizontal == <<100, 0>>

Words21 == "w w w w w w w w w w w w w w w w w w w w w"
Words16 == "v v v v v v v v v v v v v v v v"
Words15 == "u u u u u u u u u u u u u u u"

\* the end-to-end example of the specification
AnnualReportDoc ==
    << TextBlock("Annual Report", 24, "F", 0, 0, Horizontal),
       TextBlock("1. Introduction", 12, "F", 1, 0, NoDir),
       TextBlock("2. Methods", 12, "F", 2, 0, NoDir) >>

\* a report with seven font sizes
ReportDoc ==
    << TextBlock("Report", 30, "F", 0, 0, Horizontal),
       TextBlock("Overview", 24, "F", 1, 0, Horizontal),
       TextBlock(Words21, 10, "F", 2, 0, Horizontal),
       TextBlock("2.1 Scope", 20, "F", 3, 0, Horizontal),
       TextBlock("Details", 18, "F", 0, 1, Horizontal),
       TextBlock("Notes", 16, "F", 1, 1, Horizontal),
       TextBlock("Summary", 14, "F", 2, 1, Horizontal),
       TextBlock(Words21, 10, "F", 3, 1, Horizontal) >>

\* a flyer with four font sizes
FlyerDoc ==
    << TextBlock("Report", 20, "F", 0, 0, Horizontal),
       TextBlock("Research", 16, "F", 1, 0, Horizontal),
       TextBlock("& Development", 16, "F", 2, 0, Horizontal),
       TextBlock("Note: a b c d e f g h i j", 12, "F", 3, 0, Horizontal),
       TextBlock("May 5, 2024", 16, "F", 0, 1, Horizontal),
       TextBlock("Skills", 12, "F", 1, 1, Horizontal),
       TextBlock(Words21, 10, "F", 2, 1, Horizontal) >>

\* the watermark scenario of the specification
WatermarkDoc ==
    << TextBlock("Report", 30, "F", 0, 0, Horizontal),
       TextBlock("CONFIDENTIAL", 10, "F", 1, 0, <<50, 87>>),
       TextBlock("Body", 12, "F", 0, 1, Horizontal),
       TextBlock("CONFIDENTIAL", 10, "F", 1, 3, <<50, 87>>) >>

BaseDocs == {<<>>, AnnualReportDoc, ReportDoc, FlyerDoc}

FreeTexts == {"Report", "2.1.4.9 X", "& Development", "Research & Development", "A Plan"}
FreeSizes == {12, 16}

FreeBlocks(n) ==
    {TextBlock(t, sz, "F", 5, p, Horizontal) : t \in FreeTexts, sz \in FreeSizes, p \in 0..(n - 1)}

FilterTexts == {"Report", "CONFIDENTIAL"}
FilterSizes == {10, 30}
FilterDirs == {NoDir, <<99, 14>>, <<98, 20>>, <<-50, 87>>}

WatermarkBlocks ==
    {TextBlock(t, sz, "F", 5, p, d) :
        t \in FilterTexts, sz \in FilterSizes, p \in {0, 3}, d \in FilterDirs}

SeqsUpTo(S, n) == UNION {[1..k -> S] : k \in 0..n}

MinPages(blocks) == IF blocks = <<>> THEN 1 ELSE Max({blocks[i].page : i \in 1..Len(blocks)}) + 1

\* a slide with n + p filler lines under four header lines; n of the fillers
\* have exactly PARAGRAPH_WORDS words or one word, p have one word more than
\* PARAGRAPH_WORDS; with k = 2 two headers share the largest size
PaddedDoc(n, p, k) ==
    LET headers == << TextBlock("Agenda", IF k = 2 THEN 30 ELSE 24, "F", 1, 0, Horizontal),
                      TextBlock("Keynote", 30, "F", 2, 0, Horizontal),
                      TextBlock("Room A", 20, "F", 3, 0, Horizontal),
                      TextBlock("Lunch", 16, "F", 4, 0, Horizontal) >>
    IN  [i \in 1..(4 + n + p) |->
            IF i <= 4 THEN headers[i]
            ELSE IF i <= 4 + n
            THEN TextBlock(IF i % 2 = 0 THEN Words15 ELSE "Slide", 8, "F", i, 0, Horizontal)
            ELSE TextBlock(Words16, 8, "F", i, 0, Horizontal)]

-----------------------------------------------------------------------------
(* The per-document pipeline of __main__, lines 246-248 *)

NoResult == [title |-> "", outline |-> <<>>]

ExtractIdle ==
    /\ xpc = "idle" /\ pages = <<>> /\ tasks = <<>> /\ pending = {} /\ collected = <<>>
    /\ completed = <<>>

BatchIdle ==
    /\ bpc = "idle" /\ pdf_files = <<>> /\ idx = 0 /\ docs = <<>>
    /\ outputs = <<>> /\ writes = <<>>

Extracted(n, blocks) ==
    /\ pc = "extracted"
    /\ page_count = n
    /\ all_blocks = blocks
    /\ filtered_blocks = <<>>
    /\ cands = <<>>
    /\ path = "none"
    /\ result = NoResult

\* a base document with up to MaxFree more lines, in the order of line 126
InitFree ==
    \E base \in BaseDocs : \E n \in MinPages(base)..MaxPages :
        \E free \in SeqsUpTo(FreeBlocks(n), MaxFree) :
            Extracted(n, StableSort(PageY0Less, base \o free))

\* the watermark scenario, or nothing, with up to MaxFree more lines
InitWatermark ==
    \E base \in {<<>>, WatermarkDoc} : \E free \in SeqsUpTo(WatermarkBlocks, MaxFree) :
        Extracted(4, StableSort(PageY0Less, base \o free))

\* padded documents around the thresholds of the document type detection
InitPadded ==
    \E n \in 0..MaxPad, p \in 0..MaxPara, k \in 1..2, pg \in 1..2 :
        Extracted(pg, PaddedDoc(n, p, k))

Init ==
    /\ InitFree \/ InitWatermark \/ InitPadded
    /\ ExtractIdle
    /\ BatchIdle

\* line 247
FilterNonContent ==
    /\ pc = "extracted"
    /\ filtered_blocks' = filter_non_content(all_blocks)
    /\ pc' = "filtered"
    /\ UNCHANGED <<page_count, all_blocks, cands, path, result>>
    /\ UNCHANGED <<extractVars, batchVars>>

\* line 248
ClassifyHeadings ==
    /\ pc = "filtered"
    /\ \E r \in {classify_headings(page_count, filtered_blocks)} :
           /\ cands' = r.cands
           /\ path' = r.path
           /\ result' = r.result
    /\ pc' = "classified"
    /\ UNCHANGED <<page_count, all_blocks, filtered_blocks>>
    /\ UNCHANGED <<extractVars, batchVars>>

Next == FilterNonContent \/ ClassifyHeadings

Spec == Init /\ [][Next]_vars

-----------------------------------------------------------------------------
(* Properties of the classify pipeline *)

Classified == pc = "classified"

\* C1 as stated: for the one-page example (Annual Report 24, 1. Introduction 12,
\* 2. Methods 12) filtering then classifying selects Strategy A and returns
\* title "Annual Report" with both numbered lines at level H1.
C1_StrategyAExample ==
    (Classified /\ page_count = 1 /\ all_blocks = AnnualReportDoc)
        => /\ path = "A"
           /\ result = [title |-> "Annual Report",
                        outline |-> <<Item("H1", "1. Introduction", 0),
                                      Item("H1", "2. Methods", 0)>>]

\* C1 amended: for the one-page example the document is graphical (one page,
\* 3 blocks, no line over 15 words), so the result is title "" and the single
\* entry H1 "Annual Report" on page 0.
C1_GraphicalExample ==
    (Classified /\ page_count = 1 /\ all_blocks = AnnualReportDoc)
        => /\ path = "graphical"
           /\ filtered_blocks = AnnualReportDoc
           /\ result = [title |-> "", outline |-> <<Item("H1", "Annual Report", 0)>>]

C1_Witness == Classified /\ page_count = 1 /\ all_blocks = AnnualReportDoc

\* C2: the outline merge step (de-duplicate by (text, page), then fold the
\* '&' continuations) is idempotent on every list of heading items the
\* strategies produce: merging its own output again changes nothing.
C2_MergeIdempotent ==
    Classified =>
        MergeOutline(MergeOutline(Items(cands))) = MergeOutline(Items(cands))

\* the texts C3 calls protected and marked, stated on the input list
C3_Protected(t) ==
    \E i \in 1..Len(all_blocks) :
        /\ all_blocks[i].text = t
        /\ all_blocks[i].page = 0
        /\ \A j \in 1..Len(all_blocks) :
               all_blocks[j].page = 0 => all_blocks[j].size <= all_blocks[i].size

C3_Marked(t) ==
    /\ ~C3_Protected(t)
    /\ \E i \in 1..Len(all_blocks) :
           /\ all_blocks[i].text = t
           /\ all_blocks[i].dir # NoDir
           /\ all_blocks[i].dir[1] > -99 /\ all_blocks[i].dir[1] < 99

\* C3: filter_non_content returns, in the original order, exactly the input
\* blocks whose text is not marked; a block with a protected text is never
\* removed, and every block sharing a marked text is removed.
C3_FilterByText ==
    pc \in {"filtered", "classified"} =>
        /\ filtered_blocks = SelectSeq(all_blocks, LAMBDA b : ~C3_Marked(b.text))
        /\ \A i \in 1..Len(all_blocks) :
               /\ C3_Protected(all_blocks[i].text) => all_blocks[i] \in Range(filtered_blocks)
               /\ C3_Marked(all_blocks[i].text) =>
                      \A k \in 1..Len(filtered_blocks) :
                          filtered_blocks[k].text # all_blocks[i].text

\* a block that is itself not rotated was removed for sharing a marked text
C3_Witness ==
    /\ pc = "filtered"
    /\ \E i \in 1..Len(all_blocks) :
           /\ ~IsRotated(all_blocks[i])
           /\ C3_Marked(all_blocks[i].text)
           /\ all_blocks[i] \notin Range(filtered_blocks)

C4_ParagraphCount ==
    Cardinality({i \in 1..Len(filtered_blocks) : WordCount(filtered_blocks[i].text) > 15})

\* C4: for a non-empty block list the graphical path is taken iff page count
\* = 1, block count < 40 and (no block has more than 15 words or fewer than
\* a tenth of the blocks have); its result is title "" and the single entry
\* H1 with the text and page of a block of maximal size, with no heading item
\* produced by a strategy.
C4_GraphicalPath ==
    (Classified /\ filtered_blocks # <<>>) =>
        /\ path = "graphical" <=>
               /\ page_count = 1
               /\ Len(filtered_blocks) < 40
               /\ (C4_ParagraphCount = 0 \/ 10 * C4_ParagraphCount < Len(filtered_blocks))
        /\ path = "graphical" =>
               /\ result.title = ""
               /\ Len(result.outline) = 1
               /\ result.outline[1].level = "H1"
               /\ \E i \in 1..Len(filtered_blocks) :
                      /\ \A j \in 1..Len(filtered_blocks) :
                             filtered_blocks[j].size <= filtered_blocks[i].size
                      /\ result.outline[1].text = filtered_blocks[i].text
                      /\ result.outline[1].page = filtered_blocks[i].page
               /\ cands = <<>>
        /\ path # "graphical" => result.title # ""

\* a graphical document that does hold paragraph lines, fewer than a tenth
C4_Witness ==
    /\ Classified
    /\ path = "graphical"
    /\ C4_ParagraphCount > 0
    /\ Len(filtered_blocks) = 39

C5_Candidates ==
    LET title_parts == TitleParts(filtered_blocks)
        unique_sizes == SortedDesc(Sizes(filtered_blocks))
    IN  HeadingCandidates(filtered_blocks, title_parts, BodySize(filtered_blocks, unique_sizes))

C5_Emitted(b, level) ==
    \E k \in 1..Len(cands) :
        cands[k].blk = b /\ cands[k].item = Item(level, b.text, b.page)

\* C5: in Strategy B every heading candidate whose text begins with a
\* numbering prefix is emitted with level H<min(dots in the prefix + 1, 3)>
\* whatever its size: "2.1 ..." gets H2, "2.1.4.9 X" gets H3, a capital
\* letter gets H1.
C5_NumberingOverride ==
    (Classified /\ path = "B") =>
        \A i \in 1..Len(C5_Candidates) :
            LET b == C5_Candidates[i]
            IN  /\ number_pattern_match(b.text) =>
                       C5_Emitted(b, LevelName(Min(CountDots(number_group1(b.text)) + 1, 3)))
                /\ b.text = "2.1 Scope" => C5_Emitted(b, "H2")
                /\ b.text = "2.1.4.9 X" => C5_Emitted(b, "H3")
                /\ b.text = "A Plan" => C5_Emitted(b, "H1")

\* a numbered heading below the three largest heading sizes is emitted as H3
C5_Witness ==
    /\ Classified
    /\ path = "B"
    /\ \E k \in 1..Len(cands) :
           /\ cands[k].blk.text = "2.1.4.9 X"
           /\ cands[k].item.level = "H3"
           /\ Cardinality({sz \in Sizes(C5_Candidates) : sz > cands[k].blk.size}) >= 3

LevelNumber(level) == CHOOSE i \in 1..3 : LevelName(i) = level

\* C6: in Strategy A and Strategy B, of two emitted items whose levels were
\* not set by the numbering override, the one from the strictly larger block
\* has the smaller or equal level number.
C6_SizeMonotone ==
    (Classified /\ path \in {"A", "B"}) =>
        \A i, j \in 1..Len(cands) :
            (/\ ~cands[i].numbered
             /\ ~cands[j].numbered
             /\ cands[i].blk.size > cands[j].blk.size)
                => LevelNumber(cands[i].item.level) <= LevelNumber(cands[j].item.level)

\* Strategy B emitted two headings of different sizes and levels by size alone
C6_Witness ==
    /\ Classified
    /\ path = "B"
    /\ \E i, j \in 1..Len(cands) :
           /\ ~cands[i].numbered
           /\ ~cands[j].numbered
           /\ cands[i].blk.size > cands[j].blk.size
           /\ LevelNumber(cands[i].item.level) < LevelNumber(cands[j].item.level)

C7_TitleText(t) ==
    \E i \in 1..Len(filtered_blocks) :
        /\ filtered_blocks[i].text = t
        /\ filtered_blocks[i].page = 0
        /\ \A j \in 1..Len(filtered_blocks) :
               filtered_blocks[j].page = 0 => filtered_blocks[j].size <= filtered_blocks[i].size

\* C7: on the non-graphical path no block whose text equals the text of a
\* title block is emitted by Strategy A or Strategy B, on any page.
C7_TitleTextsExcluded ==
    (Classified /\ path \in {"A", "B"}) =>
        \A k \in 1..Len(cands) : ~C7_TitleText(cands[k].blk.text)

\* a block off page 0 carries the title text, at a size other blocks are emitted at
C7_Witness ==
    /\ Classified
    /\ path = "A"
    /\ \E i \in 1..Len(filtered_blocks) :
           /\ filtered_blocks[i].page > 0
           /\ C7_TitleText(filtered_blocks[i].text)
           /\ \E k \in 1..Len(cands) : cands[k].blk.size = filtered_blocks[i].size

-----------------------------------------------------------------------------
(* get_document_blocks_parallel: one task per page on the thread pool *)

\* round(): to the nearest integer, a half to the even one; x10 is in tenths
round(x10) ==
    LET q == x10 \div 10
        r == x10 % 10
    IN  IF r < 5 THEN q
        ELSE IF r > 5 THEN q + 1
        ELSE IF q % 2 = 0 THEN q ELSE q + 1

Line(spans, size10, y0, dir) == [spans |-> spans, size10 |-> size10, y0 |-> y0, dir |-> dir]

\* the lines a page can hold, in the order the extractor yields them
PageLines ==
    { << Line(<<"Intro">>, 120, 1, Horizontal), Line(<<"1.", " Scope  ">>, 115, 1, Horizontal) >>,
      << Line(<<"Footer">>, 105, 2, <<50, 87>>), Line(<<"Header">>, 125, 0, Horizontal) >>,
      << Line(<<" ", "\t">>, 100, 0, Horizontal), Line(<<"  Body\n text">>, 104, 1, Horizontal) >> }

\* len(page.get_text().strip()) of a page
PageTextLengths == {149, 150, 151}

PageSet == [text_len : PageTextLengths, lines : PageLines]

\* the cleaned lines of a page that are not empty
CleanLines(page) ==
    SelectSeq([i \in 1..Len(page.lines) |->
                  [page.lines[i] EXCEPT !.spans = <<clean_text(join(page.lines[i].spans))>>]],
              LAMBDA l : l.spans[1] # "")

\* parse_text_page((doc, page_num))
parse_text_page(page, page_num) ==
    LET ls == CleanLines(page)
    IN  [i \in 1..Len(ls) |->
            TextBlock(ls[i].spans[1], round(ls[i].size10), "F", ls[i].y0, page_num, ls[i].dir)]

\* parse_image_page_with_ocr((doc, page_num))
parse_image_page_with_ocr(page, page_num) ==
    LET ls == CleanLines(page)
    IN  [i \in 1..Len(ls) |->
            TextBlock(ls[i].spans[1], round(ls[i].size10), "OCR-Font", ls[i].y0, page_num, NoDir)]

\* lines 116-119 with >= in place of >
ChooseParser_AtLeast(page) ==
    IF page.text_len >= TEXT_LENGTH_THRESHOLD
    THEN "parse_text_page" ELSE "parse_image_page_with_ocr"

\* lines 116-119: the function queued for a page
ChooseParser(page) ==
    IF page.text_len > TEXT_LENGTH_THRESHOLD
    THEN "parse_text_page" ELSE "parse_image_page_with_ocr"

\* future.result() of the task of page i (1-based; page.number is i - 1)
TaskResult(i) ==
    IF tasks[i] = "parse_text_page" THEN parse_text_page(pages[i], i - 1)
    ELSE parse_image_page_with_ocr(pages[i], i - 1)

\* line 126 sorting by the page only
SortBlocks_ByPage(blocks) == StableSort(LAMBDA a, b : a.page < b.page, blocks)

\* line 126
SortBlocks(blocks) == StableSort(PageY0Less, blocks)

ClassifyIdle ==
    /\ pc = "idle" /\ page_count = 0 /\ all_blocks = <<>> /\ filtered_blocks = <<>>
    /\ cands = <<>> /\ path = "none" /\ result = NoResult

InitExtract ==
    /\ \E n \in 1..MaxPages : pages \in [1..n -> PageSet]
    /\ xpc = "build"
    /\ tasks = <<>>
    /\ pending = {}
    /\ collected = <<>>
    /\ completed = <<>>
    /\ ClassifyIdle
    /\ BatchIdle

\* one iteration of the loop of lines 114-119
BuildTask ==
    /\ xpc = "build"
    /\ Len(tasks) < Len(pages)
    /\ tasks' = Append(tasks, ChooseParser(pages[Len(tasks) + 1]))
    /\ UNCHANGED <<xpc, pages, pending, collected, completed>>
    /\ UNCHANGED <<classifyVars, batchVars>>

\* line 122: every task is submitted to the pool
Submit ==
    /\ xpc = "build"
    /\ Len(tasks) = Len(pages)
    /\ pending' = 1..Len(tasks)
    /\ xpc' = "collect"
    /\ UNCHANGED <<pages, tasks, collected, completed>>
    /\ UNCHANGED <<classifyVars, batchVars>>

\* lines 123-124: as_completed yields the futures in the order they finish
Collect(i) ==
    /\ xpc = "collect"
    /\ i \in pending
    /\ collected' = collected \o TaskResult(i)
    /\ pending' = pending \ {i}
    /\ completed' = Append(completed, i)
    /\ UNCHANGED <<xpc, pages, tasks>>
    /\ UNCHANGED <<classifyVars, batchVars>>

\* lines 126-127
SortAndReturn ==
    /\ xpc = "collect"
    /\ pending = {}
    /\ collected' = SortBlocks(collected)
    /\ xpc' = "returned"
    /\ UNCHANGED <<pages, tasks, pending, completed>>
    /\ UNCHANGED <<classifyVars, batchVars>>

NextExtract ==
    \/ BuildTask
    \/ Submit
    \/ \E i \in 1..MaxPages : Collect(i)
    \/ SortAndReturn

SpecExtract == InitExtract /\ [][NextExtract]_vars

\* C9: the list returned by get_document_blocks_parallel does not depend on
\* the order in which the page tasks complete: it is sorted by (page, y0),
\* holds each page's blocks, and blocks of one page with equal y0 keep the
\* order in which the page's task produced them.
C9_OrderIndependent ==
    xpc = "returned" =>
        /\ \A k \in 1..(Len(collected) - 1) :
               \/ collected[k].page < collected[k + 1].page
               \/ /\ collected[k].page = collected[k + 1].page
                  /\ collected[k].y0 <= collected[k + 1].y0
        /\ \A i \in 1..Len(pages) : \A y \in 0..2 :
               SelectSeq(collected, LAMBDA b : b.page = i - 1 /\ b.y0 = y)
                   = SelectSeq(TaskResult(i), LAMBDA b : b.y0 = y)
        /\ \A k \in 1..Len(collected) : collected[k].page \in 0..(Len(pages) - 1)

\* the task of the second page finished before the task of the first page,
\* and a page yielded two lines of equal y0
C9_Witness ==
    /\ xpc = "returned"
    /\ Len(completed) >= 2
    /\ completed[1] = 2
    /\ \E k \in 1..(Len(collected) - 1) :
           /\ collected[k].page = collected[k + 1].page
           /\ collected[k].y0 = collected[k + 1].y0
           /\ collected[k].text # collected[k + 1].text

\* C10 as stated: a page with at least 150 characters of trimmed embedded
\* text is queued for parse_text_page, a page with fewer for
\* parse_image_page_with_ocr; a page with exactly 150 uses parse_text_page.
C10_AtLeastThreshold ==
    \A i \in 1..Len(tasks) :
        /\ pages[i].text_len >= 150 => tasks[i] = "parse_text_page"
        /\ pages[i].text_len < 150 => tasks[i] = "parse_image_page_with_ocr"

\* C10 amended: a page with more than 150 characters of trimmed embedded text
\* is queued for parse_text_page, a page with 150 or fewer for
\* parse_image_page_with_ocr; a page with exactly 150 is OCR'd.
C10_AboveThreshold ==
    \A i \in 1..Len(tasks) :
        /\ pages[i].text_len > 150 => tasks[i] = "parse_text_page"
        /\ pages[i].text_len <= 150 => tasks[i] = "parse_image_page_with_ocr"
        /\ xpc = "returned" =>
               \A k \in 1..Len(collected) :
                   collected[k].page = i - 1 =>
                       (collected[k].font = "OCR-Font" <=> pages[i].text_len <= 150)

\* a page of exactly 150 characters went through OCR, another one above it did not
C10_Witness ==
    /\ xpc = "returned"
    /\ \E i \in 1..Len(tasks) :
           pages[i].text_len = 150 /\ tasks[i] = "parse_image_page_with_ocr"
    /\ \E i \in 1..Len(tasks) :
           pages[i].text_len = 151 /\ tasks[i] = "parse_text_page"

-----------------------------------------------------------------------------
(* The batch driver, lines 227-257 *)

\* str.endswith
endswith(s, suffix) ==
    Len(s) >= Len(suffix) /\ SubSeq(s, Len(s) - Len(suffix) + 1, Len(s)) = suffix

\* os.path.splitext(filename)[0]: the name up to its last dot, unless that dot
\* belongs to the leading dots of the name
splitext0(filename) ==
    LET dots == {i \in 1..Len(filename) : Ch(filename, i) = "."}
    IN  IF dots = {} THEN filename
        ELSE LET dotIndex == Max(dots)
             IN  IF \E k \in 1..(dotIndex - 1) : Ch(filename, k) # "."
                 THEN SubSeq(filename, 1, dotIndex - 1)
                 ELSE filename

\* line 234, the output file of an input file
OutputFilename(filename) == splitext0(filename) \o ".json"

\* the names os.listdir(INPUT_DIR) can return
DirNames == {"a.pdf", "a.PDF", "b.pdf", "notes.txt"}

Listings ==
    {l \in UNION {[1..k -> DirNames] : k \in 0..Cardinality(DirNames)} :
        \A i, j \in 1..Len(l) : i # j => l[i] # l[j]}

\* line 227
PdfFiles(listing) == SelectSeq(listing, LAMBDA f : endswith(lower(f), ".pdf"))

\* what an input file holds: its page count and the step that raises on it
DocKinds ==
    {[npages |-> PAGE_LIMIT + 1, fails |-> "none"]}
    \cup {[npages |-> PAGE_LIMIT, fails |-> x] :
            x \in {"none", "open", "extract", "filter", "classify"}}

ErrorRecord(message) == [error |-> message, title |-> "", outline |-> <<>>]

\* the dict classify_headings returns for an input file that raises nowhere
ResultOf(filename) ==
    [title |-> "Title of " \o filename,
     outline |-> <<Item("H1", "Heading of " \o filename, 0)>>]

\* str(e) of the exception a step raises
MessageOf(step) == step \o " failed"

\* open(output_path, 'w') and json.dump: the file is created or overwritten
WriteOutput(filename, record) ==
    /\ outputs' = [q \in DOMAIN outputs \cup {OutputFilename(filename)} |->
                      IF q = OutputFilename(filename) THEN record ELSE outputs[q]]
    /\ writes' = [writes EXCEPT ![filename] = @ + 1]

InitBatch ==
    /\ \E listing \in Listings :
           /\ pdf_files = PdfFiles(listing)
           /\ docs \in [Range(PdfFiles(listing)) -> DocKinds]
           /\ writes = [f \in Range(PdfFiles(listing)) |-> 0]
           /\ bpc = IF PdfFiles(listing) = <<>> THEN "exit" ELSE "open"
    /\ idx = 1
    /\ outputs = <<>>
    /\ ClassifyIdle
    /\ ExtractIdle

\* the except clause of lines 254-257, then the next iteration
HandleException(filename, step) ==
    /\ WriteOutput(filename, ErrorRecord(MessageOf(step)))
    /\ idx' = idx + 1
    /\ bpc' = "open"

\* lines 238-244: fitz.open and the page limit
BatchOpen ==
    /\ bpc = "open"
    /\ idx <= Len(pdf_files)
    /\ LET filename == pdf_files[idx]
       IN  IF docs[filename].fails = "open"
           THEN HandleException(filename, "open")
           ELSE IF docs[filename].npages > PAGE_LIMIT
           THEN /\ WriteOutput(filename, ErrorRecord("PDF exceeds 50-page limit"))
                /\ idx' = idx + 1
                /\ bpc' = "open"
           ELSE /\ bpc' = "extract"
                /\ UNCHANGED <<idx, outputs, writes>>
    /\ UNCHANGED <<pdf_files, docs>>
    /\ UNCHANGED <<classifyVars, extractVars>>

\* line 246; an exception goes to the except clause
BatchExtract ==
    /\ bpc = "extract"
    /\ idx <= Len(pdf_files)
    /\ LET filename == pdf_files[idx]
       IN  IF docs[filename].fails = "extract"
           THEN HandleException(filename, "extract")
           ELSE /\ bpc' = "filter"
                /\ UNCHANGED <<idx, outputs, writes>>
    /\ UNCHANGED <<pdf_files, docs>>
    /\ UNCHANGED <<classifyVars, extractVars>>

\* line 247; an exception goes to the except clause
BatchFilter ==
    /\ bpc = "filter"
    /\ idx <= Len(pdf_files)
    /\ LET filename == pdf_files[idx]
       IN  IF docs[filename].fails = "filter"
           THEN HandleException(filename, "filter")
           ELSE /\ bpc' = "classify"
                /\ UNCHANGED <<idx, outputs, writes>>
    /\ UNCHANGED <<pdf_files, docs>>
    /\ UNCHANGED <<classifyVars, extractVars>>

\* line 248; an exception goes to the except clause
BatchClassify ==
    /\ bpc = "classify"
    /\ idx <= Len(pdf_files)
    /\ LET filename == pdf_files[idx]
       IN  IF docs[filename].fails = "classify"
           THEN HandleException(filename, "classify")
           ELSE /\ bpc' = "write"
                /\ UNCHANGED <<idx, outputs, writes>>
    /\ UNCHANGED <<pdf_files, docs>>
    /\ UNCHANGED <<classifyVars, extractVars>>

\* lines 249-252
BatchWrite ==
    /\ bpc = "write"
    /\ idx <= Len(pdf_files)
    /\ WriteOutput(pdf_files[idx], ResultOf(pdf_files[idx]))
    /\ idx' = idx + 1
    /\ bpc' = "open"
    /\ UNCHANGED <<pdf_files, docs>>
    /\ UNCHANGED <<classifyVars, extractVars>>

\* the for loop of line 232 is exhausted
BatchFinish ==
    /\ bpc = "open"
    /\ idx > Len(pdf_files)
    /\ bpc' = "done"
    /\ UNCHANGED <<pdf_files, idx, docs, outputs, writes>>
    /\ UNCHANGED <<classifyVars, extractVars>>

NextBatch ==
    \/ BatchOpen
    \/ BatchExtract
    \/ BatchFilter
    \/ BatchClassify
    \/ BatchWrite
    \/ BatchFinish

SpecBatch == InitBatch /\ [][NextBatch]_vars

\* the record the driver owes an input file
ExpectedRecord(filename) ==
    IF docs[filename].fails # "none" THEN ErrorRecord(MessageOf(docs[filename].fails))
    ELSE IF docs[filename].npages > PAGE_LIMIT THEN ErrorRecord("PDF exceeds 50-page limit")
    ELSE ResultOf(filename)

\* C8: when the batch is done, a document on which extraction, filtering or
\* classification raised has the record {error, title "", outline []}, every
\* other document has its own result, each document was written once, and
\* every document of the batch has exactly one output record.
C8_FailureIsolation ==
    bpc = "done" =>
        /\ \A i \in 1..Len(pdf_files) :
               /\ writes[pdf_files[i]] = 1
               /\ OutputFilename(pdf_files[i]) \in DOMAIN outputs
               /\ outputs[OutputFilename(pdf_files[i])] = ExpectedRecord(pdf_files[i])
        /\ Cardinality(DOMAIN outputs) = Len(pdf_files)

\* The same statement for a batch whose input names give distinct output names.
BatchIsolationDistinctOutputs ==
    (/\ bpc = "done"
     /\ \A i, j \in 1..Len(pdf_files) :
            i # j => OutputFilename(pdf_files[i]) # OutputFilename(pdf_files[j]))
        => /\ \A i \in 1..Len(pdf_files) :
                  /\ writes[pdf_files[i]] = 1
                  /\ OutputFilename(pdf_files[i]) \in DOMAIN outputs
                  /\ outputs[OutputFilename(pdf_files[i])] = ExpectedRecord(pdf_files[i])
           /\ Cardinality(DOMAIN outputs) = Len(pdf_files)

====
